---- MODULE Spec2Model ----
(***************************************************************************)
(* A model of the pull-request review-metrics collector (GenerateData.py) *)
(* and of the metrics reader (DataHandler.py).                            *)
(*                                                                         *)
(* Time is counted in units of 450 seconds (1/8 hour), so that an hour    *)
(* count t/8 is exact in binary floating point and the two-decimal        *)
(* formatting of the collector rounds for real.  Text (logins, the        *)
(* comma-joined columns of the table) is a sequence of one-character      *)
(* strings.  A JSON value that may be null is a sequence: <<>> for null,  *)
(* <<v>> for the value v; a login is its text, and <<>> stands for a null *)
(* user.                                                                   *)
(***************************************************************************)
EXTENDS Integers, Sequences, FiniteSets, TLC

(* ------------------------------ bounds -------------------------------- *)

\* repositories of the registry that main walks through (the source lists 12)
NumRepos == 2
\* failed responses (non-200 status or exception) the API gives in a run
MaxFailures == 3
\* reviews the API returns for one pull request
MaxReviews == 2
\* closed pull requests of a repository in the listing worlds
MaxListing == 4
\* rows of a table the reader loads
MaxRows == 3
\* the permits of api_semaphore (the source has asyncio.Semaphore(10))
SemaphoreLimit == 2
\* reviewers of a mapping handed to remove_outliers_from_dict
MaxKeys == 4
\* the largest value of a mapping or of a sample
MaxValue == 2
\* the length of a sample handed to cliffs_delta
MaxSample == 2
\* repositories of the registry the statistics walk through (the source lists 12)
StudyRepos == 3

(* --------------------------- program constants ------------------------ *)

SKIP_NO_REVIEWS == TRUE
SKIP_BOT_PRS == TRUE

(* ------------------------------- text --------------------------------- *)

Min(a, b) == IF a < b THEN a ELSE b

RECURSIVE Join(_, _)
\* sep.join(parts)
Join(parts, sep) ==
    IF parts = <<>> THEN <<>>
    ELSE IF Len(parts) = 1 THEN parts[1]
    ELSE parts[1] \o sep \o Join(Tail(parts), sep)

CommaSpace == <<",", " ">>

Digit(d) == CASE d = 0 -> "0" [] d = 1 -> "1" [] d = 2 -> "2" [] d = 3 -> "3"
              [] d = 4 -> "4" [] d = 5 -> "5" [] d = 6 -> "6" [] d = 7 -> "7"
              [] d = 8 -> "8" [] d = 9 -> "9"

RECURSIVE Digits(_)
\* the decimal digits of a natural number
Digits(n) == IF n < 10 THEN <<Digit(n)>> ELSE Digits(n \div 10) \o <<Digit(n % 10)>>

\* t/8 hours rounded to hundredths of an hour, ties to the even hundredth
\* (t/8 is exact in binary, so the formatting rounds the exact value)
RoundCenti(t) ==
    LET n == 25 * t
        lo == (n - 1) \div 2
    IN  IF n % 2 = 0 THEN n \div 2
        ELSE IF lo % 2 = 0 THEN lo ELSE lo + 1

\* f"{t:.2f}" of the hour count t/8
Format2f(t) ==
    LET c == RoundCenti(t)
        a == IF c < 0 THEN 0 - c ELSE c
        sign == IF t < 0 THEN <<"-">> ELSE <<>>
    IN  sign \o Digits(a \div 100) \o <<".">> \o <<Digit((a \div 10) % 10), Digit(a % 10)>>

StartsWith(text, pat) == Len(text) >= Len(pat) /\ SubSeq(text, 1, Len(pat)) = pat

Drop(text, n) == SubSeq(text, n + 1, Len(text))

RECURSIVE SplitFrom(_, _, _)
SplitFrom(text, sep, piece) ==
    IF text = <<>> THEN <<piece>>
    ELSE IF StartsWith(text, sep)
         THEN <<piece>> \o SplitFrom(Drop(text, Len(sep)), sep, <<>>)
         ELSE SplitFrom(Tail(text), sep, Append(piece, Head(text)))

\* text.split(sep)
Split(text, sep) == SplitFrom(text, sep, <<>>)

RECURSIVE LStrip(_)
LStrip(text) == IF text # <<>> /\ Head(text) = " " THEN LStrip(Tail(text)) ELSE text

RECURSIVE RStrip(_)
RStrip(text) ==
    IF text # <<>> /\ text[Len(text)] = " " THEN RStrip(SubSeq(text, 1, Len(text) - 1))
    ELSE text

\* text.strip()
Strip(text) == RStrip(LStrip(text))

\* [r.strip() for r in text.split(",") if r.strip()]
StrippedParts(text) ==
    LET parts == Split(text, <<",">>)
    IN  SelectSeq([i \in 1 .. Len(parts) |-> Strip(parts[i])], LAMBDA r : r # <<>>)

RECURSIVE Compile(_)
\* re.compile(pat) for a login: "[" to the next "]" is a class, matching one
\* character out of those between them; any other character of a login (a
\* letter, a digit, a hyphen) matches itself. The result lists, place by place,
\* the characters that match there
Compile(pat) ==
    IF pat = <<>> THEN <<>>
    ELSE IF Head(pat) = "["
         THEN LET close == CHOOSE i \in 2 .. Len(pat) :
                               pat[i] = "]" /\ \A k \in 2 .. i - 1 : pat[k] # "]"
              IN  << { pat[k] : k \in 2 .. close - 1 } >> \o Compile(Drop(pat, close))
         ELSE << {Head(pat)} >> \o Compile(Tail(pat))

\* the compiled pattern matches at the start of text
MatchesAt(text, places) ==
    /\ Len(text) >= Len(places)
    /\ \A i \in 1 .. Len(places) : text[i] \in places[i]

RECURSIVE FindAll(_, _)
\* len(re.findall(pat, text)): the matches found left to right, none
\* overlapping another
FindAll(text, places) ==
    IF Len(text) < Len(places) THEN 0
    ELSE IF MatchesAt(text, places) THEN 1 + FindAll(Drop(text, Len(places)), places)
    ELSE FindAll(Tail(text), places)

\* Series.str.count(pat) on one cell, pat read as a regular expression
CountMatches(text, pat) == FindAll(text, Compile(pat))

\* Series.str.contains(pat) on one cell: re.search(pat, text) finds a match
ContainsMatch(text, pat) == FindAll(text, Compile(pat)) > 0

(* --------------------------- the registry ----------------------------- *)

\* CoveredRepos.repositories, by position; a repository's url is its position
Repositories == 1 .. NumRepos

(* ---------------- get_pull_requests_by_date: one page ------------------ *)

\* main's start_date and end_date, in the model's time
StartDate == 2
EndDate == 4
\* per_page of the listing request (the source asks for 100 a page)
PerPage == 2

\* page `page` of a listing the API serves (an empty page past its end)
PageOf(listing, page) ==
    SubSeq(listing, (page - 1) * PerPage + 1, Min(page * PerPage, Len(listing)))

\* pr_page = [pr for pr in pr_page if pr.get("user", {}).get("type") != "Bot"]
DropBots(pr_page) ==
    IF SKIP_BOT_PRS THEN SelectSeq(pr_page, LAMBDA pr : pr.type # "Bot") ELSE pr_page

\* TooRecent with > for >=
TooRecentStrict(pr_created) == pr_created > EndDate

\* pr_created >= end_dt: the pull request is too recent and is skipped
TooRecent(pr_created) == pr_created >= EndDate

\* pr_created < start_dt: the scan returns
TooOld(pr_created) == pr_created < StartDate

RECURSIVE ScanPage(_, _)
\* the for loop over one page: [list |-> pr_list after it, stop |-> it returned]
ScanPage(pr_list, pr_page) ==
    IF pr_page = <<>> THEN [list |-> pr_list, stop |-> FALSE]
    ELSE LET pr == Head(pr_page) IN
         IF TooRecent(pr.created_at) THEN ScanPage(pr_list, Tail(pr_page))
         ELSE IF TooOld(pr.created_at) THEN [list |-> pr_list, stop |-> TRUE]
         ELSE ScanPage(Append(pr_list, pr), Tail(pr_page))

(* ----------------------- process_pull_request -------------------------- *)

\* Qualifies with the author's own reviews let through
QualifiesAuthorToo(rv, pr_author) ==
    /\ rv.user # <<>>
    /\ rv.submitted_at # <<>>

\* rv.get("user") and rv.get("submitted_at") and rv["user"]["login"] != pr_author
Qualifies(rv, pr_author) ==
    /\ rv.user # <<>>
    /\ rv.submitted_at # <<>>
    /\ rv.user # pr_author

FilterReviews(reviews, pr_author) ==
    SelectSeq(reviews, LAMBDA rv : Qualifies(rv, pr_author))

RECURSIVE InsertSorted(_, _)
\* rv put behind every review of `sorted` submitted no later than it
InsertSorted(sorted, rv) ==
    IF sorted = <<>> THEN <<rv>>
    ELSE IF Head(sorted).submitted_at[1] <= rv.submitted_at[1]
         THEN <<Head(sorted)>> \o InsertSorted(Tail(sorted), rv)
         ELSE <<rv>> \o sorted

\* SortReviews leaving the reviews in the order the API gave them
SortReviewsNot(reviews) == reviews

RECURSIVE SortReviews(_)
\* sorted(reviews, key=submitted_at): stable
SortReviews(reviews) ==
    IF reviews = <<>> THEN <<>>
    ELSE InsertSorted(SortReviews(SubSeq(reviews, 1, Len(reviews) - 1)),
                      reviews[Len(reviews)])

RECURSIVE ResponseTimesSkipZero(_, _)
\* ResponseTimes recording a time only when it is not 0 (`if time_diff_hours:`)
ResponseTimesSkipZero(reviews_sorted, last_activity_time) ==
    IF reviews_sorted = <<>> THEN <<>>
    ELSE LET review_submitted_at == Head(reviews_sorted).submitted_at[1] IN
         (IF review_submitted_at = last_activity_time THEN <<>>
          ELSE <<review_submitted_at - last_activity_time>>)
            \o ResponseTimesSkipZero(Tail(reviews_sorted), review_submitted_at)

RECURSIVE ResponseTimesSinceCreation(_, _)
\* ResponseTimes with last_activity_time never moved on from created_at
ResponseTimesSinceCreation(reviews_sorted, last_activity_time) ==
    IF reviews_sorted = <<>> THEN <<>>
    ELSE <<Head(reviews_sorted).submitted_at[1] - last_activity_time>>
            \o ResponseTimesSinceCreation(Tail(reviews_sorted), last_activity_time)

RECURSIVE ResponseTimes(_, _)
\* the loop over reviews_sorted: each review's time since last_activity_time
ResponseTimes(reviews_sorted, last_activity_time) ==
    IF reviews_sorted = <<>> THEN <<>>
    ELSE LET review_submitted_at == Head(reviews_sorted).submitted_at[1] IN
         <<review_submitted_at - last_activity_time>>
            \o ResponseTimes(Tail(reviews_sorted), review_submitted_at)

\* reviewers_list of the loop
ReviewersList(reviews_sorted) ==
    [i \in 1 .. Len(reviews_sorted) |-> reviews_sorted[i].user]

\* SkipsPullRequest with the check left out
SkipsNothing(total_reviews) == FALSE

\* if SKIP_NO_REVIEWS and total_reviews == 0: return None
SkipsPullRequest(total_reviews) == SKIP_NO_REVIEWS /\ total_reviews = 0

\* review_time: merged_at, else closed_at, minus created_at; None without either
ReviewTime(pr) ==
    IF pr.merged_at # <<>> THEN <<pr.merged_at[1] - pr.created_at>>
    ELSE IF pr.closed_at # <<>> THEN <<pr.closed_at[1] - pr.created_at>>
    ELSE <<>>

\* get_pull_request_details: pr_data.get(key, 0); a field of the response is
\* [has |-> the key is there, val |-> <<>> for null or <<n>>]
GetOrZero(field) == IF field.has THEN field.val ELSE <<0>>

\* loc: additions + deletions unless one of them is None
LinesOfCode(additions, deletions) ==
    IF additions # <<>> /\ deletions # <<>> THEN <<additions[1] + deletions[1]>> ELSE <<>>

\* the dict process_pull_request returns
MakeRecord(repo, pr, reviewers_list, times_list, pr_data) ==
    [ repo |-> repo,
      pr_number |-> pr.number,
      user |-> pr.user,
      created_at |-> pr.created_at,
      merged_at |-> pr.merged_at,
      closed_at |-> pr.closed_at,
      num_reviews |-> Len(reviewers_list),
      reviewers |-> Join(reviewers_list, CommaSpace),
      reviewer_response_times |->
          Join([i \in 1 .. Len(times_list) |-> Format2f(times_list[i])], CommaSpace),
      response_time_hours |-> IF times_list # <<>> THEN <<times_list[1]>> ELSE <<>>,
      review_time_hours |-> ReviewTime(pr),
      lines_of_code |-> LinesOfCode(GetOrZero(pr_data.additions), GetOrZero(pr_data.deletions)),
      changed_files |-> GetOrZero(pr_data.changed_files),
      url |-> pr.url ]

(* ------------------------------ the API -------------------------------- *)

\* what the API holds for one pull request; `reviews` and `details` are what
\* its reviews and details requests return
ServerPR(repo, number, created_at, user, type, reviews, details) ==
    [ number |-> number, created_at |-> created_at, user |-> user, type |-> type,
      merged_at |-> <<>>, closed_at |-> <<created_at + 1>>,
      url |-> <<repo, number>>, reviews |-> reviews, details |-> details ]

\* an item of the listing response: the fields extract_review_metrics reads
ListingItem(p) ==
    [ number |-> p.number, created_at |-> p.created_at, user |-> p.user,
      type |-> p.type, merged_at |-> p.merged_at, closed_at |-> p.closed_at,
      url |-> p.url ]

VARIABLES
    api,        \* [listing: repository -> the closed pull requests, newest first]
    budget,     \* failed responses the API may still give
    permits,    \* api_semaphore._value
    waiters,    \* api_semaphore._waiters: the callers blocked in acquire, oldest first
    req,        \* caller -> its send_API_request call; caller 0 is the listing, i is task i
    mainPc,     \* where main is: "start", "listing", "dispatch", "gather", "done"
    repoIx,     \* the repository main is at
    page,       \* get_pull_requests_by_date: page
    pr_list,    \* get_pull_requests_by_date: pr_list
    tasks,      \* extract_review_metrics: tasks, one process_pull_request each
    saved,      \* the tables main has written, in registry order
    requested,  \* history: the URLs a GET was sent for
    succeeded,  \* history: the URLs send_API_request has returned a body for
    ratelimit_remaining,  \* the global ratelimit_remaining
    ratelimit_reset,      \* the global ratelimit_reset
    served,     \* the 200 responses the API has sent, which its rate-limit headers count
    table,      \* DataHandler: the rows load_repository_metrics returns
    answer,     \* DataHandler: what the last call of the reader returned
    data,       \* remove_outliers_from_dict: data, a mapping from reviewer to value
    samples,    \* cliffs_delta: its arguments, [x |-> ..., y |-> ...]
    study,      \* Statistics: repository -> what the metric functions return for it
    stat        \* what the last call on data or samples returned

rateVars == << ratelimit_remaining, ratelimit_reset, served >>
collectorVars == << api, budget, permits, waiters, req, mainPc, repoIx, page, pr_list,
                    tasks, saved, requested, succeeded, rateVars >>
readerVars == << table, answer >>
statsVars == << data, samples, study, stat >>
vars == << collectorVars, readerVars, statsVars >>

(* -------------------- api_semaphore (asyncio.Semaphore) ---------------- *)

\* a send_API_request call: st is where its innermost invocation is, held the
\* permits its suspended outer invocations keep; not200 is history: the non-200
\* responses the call has had
IdleReq == [st |-> "idle", held |-> 0, not200 |-> 0]

Sem == [permits |-> permits, waiters |-> waiters, req |-> req]

\* Acquire without the wait: the caller goes on whether a permit is free or not
AcquireUnbounded(s, c) == [s EXCEPT !.permits = @ - 1, !.req[c].st = "inflight"]

\* async with api_semaphore, entering: the permit at once when one is free and
\* nobody waits, else the caller queues
Acquire(s, c) ==
    IF s.permits > 0 /\ s.waiters = <<>>
    THEN [s EXCEPT !.permits = @ - 1, !.req[c].st = "inflight"]
    ELSE [s EXCEPT !.waiters = Append(@, c), !.req[c].st = "waiting"]

\* async with api_semaphore, leaving: the permit goes to the oldest waiter,
\* which sends its GET, or back to the semaphore
ReleaseOne(s) ==
    IF s.waiters # <<>>
    THEN [s EXCEPT !.waiters = Tail(@), !.req[Head(s.waiters)].st = "inflight"]
    ELSE [s EXCEPT !.permits = @ + 1]

RECURSIVE ReleaseN(_, _)
ReleaseN(s, n) == IF n = 0 THEN s ELSE ReleaseN(ReleaseOne(s), n - 1)

RECURSIVE AcquireEach(_, _, _)
\* callers i .. n enter the semaphore in this order
AcquireEach(s, i, n) == IF i > n THEN s ELSE AcquireEach(Acquire(s, i), i + 1, n)

(* ---------------------------- the URLs --------------------------------- *)

\* the URL caller c asks for, given the page and the tasks
UrlOf(c, repo, pg, tks) ==
    IF c = 0 THEN [kind |-> "pulls", repo |-> repo, id |-> pg]
    ELSE [kind |-> tks[c].pc, repo |-> repo, id |-> tks[c].pr.number]

\* the URLs with a GET under way
InFlightUrls(rq, repo, pg, tks) ==
    { UrlOf(c, repo, pg, tks) :
        c \in { d \in DOMAIN rq : rq[d].st \in {"inflight", "reading_body"} } }

Callers == DOMAIN req
\* the calls whose GET is sent and not yet answered in full
InFlight == { c \in Callers : req[c].st \in {"inflight", "reading_body"} }

(* ------------------------------ actions -------------------------------- *)

\* x of extract_review_metrics: the pull requests it keeps (the source keeps 2300)
x == 3

SetSem(s) ==
    /\ permits' = s.permits
    /\ waiters' = s.waiters
    /\ req' = s.req

\* the GETs sent by the step join the history
NoteRequests == requested' = requested \cup InFlightUrls(req', repoIx', page', tasks')

\* what the API holds for pull request `number` of `repo`
ServerLookup(repo, number) ==
    LET l == api.listing[repo]
    IN  l[CHOOSE i \in 1 .. Len(l) : l[i].number = number]

\* main: the next repository of the loop; get_pull_requests_by_date asks for page 1
StartRepo ==
    /\ mainPc = "start"
    /\ mainPc' = "listing"
    /\ page' = 1
    /\ pr_list' = <<>>
    /\ SetSem(Acquire(Sem, 0))
    /\ UNCHANGED << readerVars, statsVars, rateVars >>
    /\ UNCHANGED << api, budget, repoIx, tasks, saved, succeeded >>
    /\ NoteRequests

\* ListingReturned going on with the page after the next
ListingReturnedSkippingAPage(s, pr_page) ==
    LET scan == ScanPage(pr_list, DropBots(pr_page)) IN
    IF pr_page = <<>> \/ scan.stop
    THEN /\ mainPc' = "dispatch"
         /\ pr_list' = IF pr_page = <<>> THEN pr_list ELSE scan.list
         /\ page' = page
         /\ SetSem(s)
         /\ tasks' = tasks
    ELSE /\ mainPc' = mainPc
         /\ pr_list' = scan.list
         /\ page' = page + 2
         /\ SetSem(Acquire(s, 0))
         /\ tasks' = tasks

\* get_pull_requests_by_date, after `await send_API_request` returned pr_page
ListingReturned(s, pr_page) ==
    LET scan == ScanPage(pr_list, DropBots(pr_page)) IN
    IF pr_page = <<>> \/ scan.stop
    THEN /\ mainPc' = "dispatch"
         /\ pr_list' = IF pr_page = <<>> THEN pr_list ELSE scan.list
         /\ page' = page
         /\ SetSem(s)
         /\ tasks' = tasks
    ELSE /\ mainPc' = mainPc
         /\ pr_list' = scan.list
         /\ page' = page + 1
         /\ SetSem(Acquire(s, 0))
         /\ tasks' = tasks

\* history: the tasks that have returned, and so the rank of the next to return
Returned(tks) == { j \in DOMAIN tks : tks[j].pc = "done" }

\* process_pull_request, after `await send_API_request` returned the reviews
ReviewsReturned(s, i, reviews) ==
    LET pr == tasks[i].pr
        reviews_sorted == SortReviews(FilterReviews(reviews, pr.user))
        reviewers_list == ReviewersList(reviews_sorted)
        times_list == ResponseTimes(reviews_sorted, pr.created_at)
    IN  IF SkipsPullRequest(Len(reviewers_list))
        THEN /\ tasks' = [tasks EXCEPT ![i].pc = "done",
                                       ![i].rank = Cardinality(Returned(tasks)) + 1]
             /\ SetSem(s)
        ELSE /\ tasks' = [tasks EXCEPT ![i].pc = "details",
                                       ![i].reviewers_list = reviewers_list,
                                       ![i].times_list = times_list]
             /\ SetSem(Acquire(s, i))

\* process_pull_request, after get_pull_request_details returned
DetailsReturned(s, i, pr_data) ==
    /\ tasks' = [tasks EXCEPT ![i].pc = "done",
                              ![i].rank = Cardinality(Returned(tasks)) + 1,
                              ![i].result = << MakeRecord(repoIx, tasks[i].pr,
                                   tasks[i].reviewers_list, tasks[i].times_list, pr_data) >>]
    /\ SetSem(s)

\* the limit the API grants an hour, the initial ratelimit_remaining
RateLimit == 5000

\* the rate-limit headers a 200 response can carry: both, or one of them missing
HeaderChoices == {"both", "no_remaining", "no_reset"}

\* response.headers.get('X-RateLimit-Remaining') and ...('X-RateLimit-Reset') of
\* the n-th 200 response the API gives: what is left of the limit, and a reset
\* time later with each response; <<>> is None, the header is missing
HeadersOf(n, h) ==
    [remaining |-> IF h = "no_remaining" THEN <<>> ELSE << RateLimit - n >>,
     reset |-> IF h = "no_reset" THEN <<>> ELSE << n >>]

\* int(None) raises TypeError at line 59 or 60
HeadersRaise(headers) == headers.remaining = <<>> \/ headers.reset = <<>>

\* ratelimit_remaining = int(...); ratelimit_reset = int(...): no await between;
\* an assignment whose int(...) raises, and what follows it, is not made
UpdateRateLimit(headers) ==
    /\ ratelimit_remaining' =
           IF headers.remaining # <<>> THEN headers.remaining[1] ELSE ratelimit_remaining
    /\ ratelimit_reset' =
           IF headers.remaining # <<>> /\ headers.reset # <<>> THEN headers.reset[1]
           ELSE ratelimit_reset

\* send_API_request: the status line and headers of a 200 response (line 53);
\* lines 59-60 run, and the call awaits the body at line 64 inside the
\* semaphore; with a header missing the exception leaves the semaphore and the
\* call sleeps in the except clause
Respond200Headers(c, h) ==
    /\ req[c].st = "inflight"
    /\ served' = served + 1
    /\ UpdateRateLimit(HeadersOf(served + 1, h))
    /\ IF HeadersRaise(HeadersOf(served + 1, h))
       THEN /\ budget > 0
            /\ budget' = budget - 1
            /\ SetSem(ReleaseOne([Sem EXCEPT !.req[c].st = "cooldown_out"]))
       ELSE /\ req' = [req EXCEPT ![c].st = "reading_body"]
            /\ UNCHANGED << budget, permits, waiters >>
    /\ UNCHANGED << readerVars, statsVars >>
    /\ UNCHANGED << api, mainPc, repoIx, page, pr_list, tasks, saved, succeeded >>
    /\ NoteRequests

\* send_API_request: `return await response.json()`, the body has arrived; every
\* invocation of the call returns, each one that is inside
\* `async with api_semaphore` giving its permit back
Respond200(c) ==
    /\ req[c].st = "reading_body"
    /\ LET s == ReleaseN([Sem EXCEPT !.req[c] = IdleReq], req[c].held + 1) IN
       IF c = 0
       THEN ListingReturned(s, [k \in DOMAIN PageOf(api.listing[repoIx], page) |->
                                   ListingItem(PageOf(api.listing[repoIx], page)[k])])
       ELSE /\ IF tasks[c].pc = "reviews"
               THEN ReviewsReturned(s, c, ServerLookup(repoIx, tasks[c].pr.number).reviews)
               ELSE DetailsReturned(s, c, ServerLookup(repoIx, tasks[c].pr.number).details)
            /\ UNCHANGED << mainPc, pr_list, page >>
    /\ succeeded' = succeeded \cup { UrlOf(c, repoIx, page, tasks) }
    /\ UNCHANGED << readerVars, statsVars, rateVars >>
    /\ UNCHANGED << api, budget, repoIx, saved >>
    /\ NoteRequests

\* RespondNot200 leaving `async with api_semaphore` before it sleeps
RespondNot200Releasing(c) ==
    /\ req[c].st = "inflight"
    /\ budget > 0
    /\ budget' = budget - 1
    /\ SetSem(ReleaseOne([Sem EXCEPT !.req[c].st = "cooldown_out",
                                     !.req[c].not200 = @ + 1]))
    /\ UNCHANGED << readerVars, statsVars, rateVars >>
    /\ UNCHANGED << api, mainPc, repoIx, page, pr_list, tasks, saved, succeeded >>
    /\ NoteRequests

\* send_API_request: response.status != 200; the call sleeps inside
\* `async with api_semaphore`, its permit kept
RespondNot200(c) ==
    /\ req[c].st = "inflight"
    /\ budget > 0
    /\ budget' = budget - 1
    /\ req' = [req EXCEPT ![c].st = "cooldown_in", ![c].not200 = @ + 1]
    /\ UNCHANGED << readerVars, statsVars, rateVars >>
    /\ UNCHANGED << api, permits, waiters, mainPc, repoIx, page, pr_list, tasks,
                    saved, requested, succeeded >>

\* send_API_request: an exception under the try, at session.get (line 53) or at
\* response.json() (line 64, after lines 59-60 have run); it leaves
\* `async with api_semaphore`, and the call sleeps in the except clause
RespondError(c) ==
    /\ req[c].st \in {"inflight", "reading_body"}
    /\ budget > 0
    /\ budget' = budget - 1
    /\ SetSem(ReleaseOne([Sem EXCEPT !.req[c].st = "cooldown_out"]))
    /\ UNCHANGED << readerVars, statsVars, rateVars >>
    /\ UNCHANGED << api, mainPc, repoIx, page, pr_list, tasks, saved, succeeded >>
    /\ NoteRequests

\* send_API_request: the sleep is over, `return await send_API_request(url, session)`
Retry(c) ==
    /\ req[c].st \in {"cooldown_in", "cooldown_out"}
    /\ SetSem(Acquire([Sem EXCEPT !.req[c].held =
                           IF req[c].st = "cooldown_in" THEN @ + 1 ELSE @], c))
    /\ UNCHANGED << readerVars, statsVars, rateVars >>
    /\ UNCHANGED << api, budget, mainPc, repoIx, page, pr_list, tasks, saved, succeeded >>
    /\ NoteRequests

\* Truncate without the cut
TruncateNothing(pull_requests) == pull_requests

\* Truncate cutting behind the pull request after the x-th
TruncateOneLate(pull_requests) ==
    IF Len(pull_requests) > x + 1 THEN SubSeq(pull_requests, 1, x + 1) ELSE pull_requests

\* pull_requests[:x]
Truncate(pull_requests) ==
    IF Len(pull_requests) > x THEN SubSeq(pull_requests, 1, x) ELSE pull_requests

\* NewTask starting with the details request
NewTaskDetailsFirst(pr) ==
    [pr |-> pr, pc |-> "details", reviewers_list |-> <<>>, times_list |-> <<>>,
     result |-> <<>>, rank |-> 0]

\* a task as asyncio.create_task makes it; rank is history: the task was the
\* rank-th of its repository to return (0 while it runs)
NewTask(pr) ==
    [pr |-> pr, pc |-> "reviews", reviewers_list |-> <<>>, times_list |-> <<>>,
     result |-> <<>>, rank |-> 0]

\* extract_review_metrics: the tasks are created and, main waiting in gather,
\* each runs to its first send_API_request, in the order of creation
Dispatch ==
    /\ mainPc = "dispatch"
    /\ mainPc' = "gather"
    /\ LET pull_requests == Truncate(pr_list)
           n == Len(pull_requests)
       IN  /\ tasks' = [i \in 1 .. n |-> NewTask(pull_requests[i])]
           /\ SetSem(AcquireEach([Sem EXCEPT !.req = [c \in 0 .. n |-> IdleReq]], 1, n))
    /\ UNCHANGED << readerVars, statsVars, rateVars >>
    /\ UNCHANGED << api, budget, repoIx, page, pr_list, saved, succeeded >>
    /\ NoteRequests

\* GatherDone returning at the first task that has returned
GatherAny == tasks = <<>> \/ \E i \in DOMAIN tasks : tasks[i].pc = "done"

\* gather returns once every task has returned
GatherDone == \A i \in DOMAIN tasks : tasks[i].pc = "done"

RECURSIVE MetricsNewestLast(_)
\* Metrics with the results taken last task first
MetricsNewestLast(tks) ==
    IF tks = <<>> THEN <<>>
    ELSE MetricsNewestLast(Tail(tks))
            \o (IF Head(tks).result # <<>> THEN Head(tks).result ELSE <<>>)

RECURSIVE Metrics(_)
\* for result in results: if result: metrics.append(result)
Metrics(tks) ==
    IF tks = <<>> THEN <<>>
    ELSE (IF Head(tks).result # <<>> THEN Head(tks).result ELSE <<>>) \o Metrics(Tail(tks))

\* the keys of the dict process_pull_request returns, in the order it writes them
RecordKeys ==
    << "repo", "pr_number", "user", "created_at", "merged_at", "closed_at",
       "num_reviews", "reviewers", "reviewer_response_times", "response_time_hours",
       "review_time_hours", "lines_of_code", "changed_files", "url" >>

\* pd.DataFrame(data) as df.to_csv(filename, index=False) writes it: the header
\* holds the keys of the records, and nothing when there is no record
DataFrame(d) ==
    [columns |-> IF d = <<>> THEN <<>> ELSE RecordKeys, rows |-> d]

\* extract_review_metrics returns; main writes the table and goes on
SaveTable ==
    /\ mainPc = "gather"
    /\ GatherDone
    /\ saved' = Append(saved, DataFrame(Metrics(tasks)))
    /\ tasks' = <<>>
    /\ req' = [c \in {0} |-> IdleReq]
    /\ IF repoIx < NumRepos
       THEN mainPc' = "start" /\ repoIx' = repoIx + 1
       ELSE mainPc' = "done" /\ repoIx' = repoIx
    /\ UNCHANGED << readerVars, statsVars, rateVars >>
    /\ UNCHANGED << api, budget, permits, waiters, page, pr_list, requested, succeeded >>

Next ==
    \/ StartRepo
    \/ \E c \in Callers : \E h \in HeaderChoices : Respond200Headers(c, h)
    \/ \E c \in Callers : Respond200(c)
    \/ \E c \in Callers : RespondNot200(c)
    \/ \E c \in Callers : RespondError(c)
    \/ \E c \in Callers : Retry(c)
    \/ Dispatch
    \/ SaveTable

(* ------------------------------ worlds --------------------------------- *)

LoginA == <<"a">>
LoginAB == <<"a", "b">>
LoginB == <<"b">>
LoginC == <<"c">>
\* the login of an app, "a[bot]" cut short
LoginBot == <<"a", "[", "b", "]">>

Review(user, submitted_at) == [user |-> user, submitted_at |-> submitted_at]

Field(val) == [has |-> TRUE, val |-> val]
NoField == [has |-> FALSE, val |-> <<>>]

Details(additions, deletions, changed_files) ==
    [additions |-> additions, deletions |-> deletions, changed_files |-> changed_files]

PlainDetails == Details(Field(<<3>>), Field(<<1>>), Field(<<2>>))

\* a pull request of the window by LoginC with one review, by LoginA
ReviewedPR(repo, number) ==
    ServerPR(repo, number, 3, LoginC, "User", << Review(LoginA, <<5>>) >>, PlainDetails)

\* a pull request of the window whose only review is its author's
UnreviewedPR(repo, number) ==
    ServerPR(repo, number, 3, LoginC, "User", << Review(LoginC, <<4>>) >>, PlainDetails)

\* a small listing: one reviewed pull request of the window, one older
SmallListing(repo) ==
    << ReviewedPR(repo, 2), ServerPR(repo, 1, 1, LoginC, "User", <<>>, PlainDetails) >>

\* more pull requests in the window than extract_review_metrics keeps, all
\* reviewed but the second
WideListing(repo) ==
    [k \in 1 .. x + 1 |->
        IF k = 2 THEN UnreviewedPR(repo, x + 2 - k) ELSE ReviewedPR(repo, x + 2 - k)]

\* two reviewed pull requests of the window
PairListing(repo) == << ReviewedPR(repo, 2), ReviewedPR(repo, 1) >>

WideWorld ==
    [listing |-> [r \in Repositories |-> IF r = 1 THEN WideListing(r) ELSE SmallListing(r)]]

PairWorld ==
    [listing |-> [r \in Repositories |-> IF r = 1 THEN PairListing(r) ELSE SmallListing(r)]]

InitRun ==
    /\ permits = SemaphoreLimit
    /\ waiters = <<>>
    /\ req = [c \in {0} |-> IdleReq]
    /\ mainPc = "start"
    /\ repoIx = 1
    /\ page = 1
    /\ pr_list = <<>>
    /\ tasks = <<>>
    /\ saved = <<>>
    /\ requested = {}
    /\ succeeded = {}
    /\ ratelimit_remaining = RateLimit
    /\ ratelimit_reset = 0
    /\ served = 0

\* the reader has not run
InitReaderIdle ==
    /\ table = <<>>
    /\ answer = [op |-> "none"]

\* no statistic has been asked for
InitStatsIdle ==
    /\ data = <<>>
    /\ samples = [x |-> <<>>, y |-> <<>>]
    /\ study = <<>>
    /\ stat = [op |-> "none"]

Init ==
    /\ api \in {WideWorld, PairWorld}
    /\ budget = MaxFailures
    /\ InitRun
    /\ InitReaderIdle
    /\ InitStatsIdle

Spec == Init /\ [][Next]_vars

\* the scheduler runs every ready coroutine, every sleep ends and every GET is
\* answered: no step that stays possible is put off for ever
FairSpec == Spec /\ WF_vars(Next)

(* ------------------- worlds of an API that never fails ----------------- *)

ReviewChoices ==
    { Review(u, t) : u \in {<<>>, LoginA, LoginB, LoginC}, t \in {<<>>, <<4>>, <<5>>} }

ReviewSeqs == UNION { [1 .. n -> ReviewChoices] : n \in 0 .. MaxReviews }

\* repository 1 holds one pull request of the window, by LoginC, with any reviews
ReviewWorlds ==
    { [listing |-> [r \in Repositories |->
          IF r = 1 THEN << ServerPR(r, 1, 3, LoginC, "User", rs, PlainDetails) >>
          ELSE SmallListing(r)]] : rs \in ReviewSeqs }

\* creation times around the window: before it, its first instant, inside, its end
ListingTimes == (StartDate - 1) .. EndDate

ListingChoices == [created_at : ListingTimes, type : {"User", "Bot"}]

\* the listings the API serves: sorted by creation time, newest first
SortedListings ==
    UNION { { l \in [1 .. n -> ListingChoices] :
                \A i \in 1 .. n - 1 : l[i].created_at >= l[i + 1].created_at }
            : n \in 0 .. MaxListing }

\* repository 1 holds any listing, each pull request reviewed once by LoginA
ListingWorlds ==
    { [listing |-> [r \in Repositories |->
          IF r = 1
          THEN [k \in 1 .. Len(l) |->
                   ServerPR(r, Len(l) + 1 - k, l[k].created_at, LoginC, l[k].type,
                            << Review(LoginA, <<5>>) >>, PlainDetails)]
          ELSE SmallListing(r)]] : l \in SortedListings }

\* a field of the details response: a number, null, or not there
FieldChoices == { Field(<<1>>), Field(<<>>), NoField }

\* repository 1 holds one reviewed pull request of the window, with any details
DetailWorlds ==
    { [listing |-> [r \in Repositories |->
          IF r = 1
          THEN << ServerPR(r, 1, 3, LoginC, "User", << Review(LoginA, <<5>>) >>,
                           Details(a, d, f)) >>
          ELSE SmallListing(r)]] : a \in FieldChoices, d \in FieldChoices, f \in FieldChoices }

InitOk ==
    /\ api \in ReviewWorlds \cup ListingWorlds \cup DetailWorlds
    /\ budget = 0
    /\ InitRun
    /\ InitReaderIdle
    /\ InitStatsIdle

NextOk ==
    \/ StartRepo
    \/ \E c \in Callers : Respond200Headers(c, "both")
    \/ \E c \in Callers : Respond200(c)
    \/ Dispatch
    \/ SaveTable

\* the collector against an API that answers every request with 200
SpecOk == InitOk /\ [][NextOk]_vars

(* ============================ the reader =============================== *)

DigitValue(ch) == CASE ch = "0" -> 0 [] ch = "1" -> 1 [] ch = "2" -> 2 [] ch = "3" -> 3
                    [] ch = "4" -> 4 [] ch = "5" -> 5 [] ch = "6" -> 6 [] ch = "7" -> 7
                    [] ch = "8" -> 8 [] ch = "9" -> 9
IsDigit(ch) == ch \in {"0", "1", "2", "3", "4", "5", "6", "7", "8", "9"}

RECURSIVE NatOf(_)
NatOf(digits) ==
    IF digits = <<>> THEN 0
    ELSE 10 * NatOf(SubSeq(digits, 1, Len(digits) - 1)) + DigitValue(digits[Len(digits)])

\* float(text) of a number written with two decimals, in hundredths: <<v>>, or
\* <<>> where float raises ValueError
ParseFloat(text) ==
    LET neg == text # <<>> /\ Head(text) = "-"
        body == IF neg THEN Tail(text) ELSE text
        n == Len(body)
    IN  IF /\ n >= 4
           /\ body[n - 2] = "."
           /\ \A i \in (1 .. n) \ {n - 2} : IsDigit(body[i])
        THEN LET v == 100 * NatOf(SubSeq(body, 1, n - 3)) + NatOf(SubSeq(body, n - 1, n))
             IN  << IF neg THEN 0 - v ELSE v >>
        ELSE <<>>

\* read_csv gives a column of numbers when every cell of it reads as one number
\* (no row has a second response time), a column of text otherwise
TimesColumnIsNumeric(rows) ==
    \A i \in 1 .. Len(rows) : ParseFloat(rows[i].reviewer_response_times) # <<>>

\* load_repository_metrics: the rows of the table main wrote, read back; an
\* empty cell (None in the record) is NaN, <<>>
load_repository_metrics(rows) ==
    [i \in 1 .. Len(rows) |->
        [ reviewers |-> rows[i].reviewers,
          reviewer_response_times |-> rows[i].reviewer_response_times,
          lines_of_code |-> rows[i].lines_of_code,
          review_time_hours |-> rows[i].review_time_hours ]]

RECURSIVE SumOver(_, _)
SumOver(set, f) ==
    IF set = {} THEN 0
    ELSE LET i == CHOOSE j \in set : TRUE IN f[i] + SumOver(set \ {i}, f)

RECURSIVE SumSeq(_)
SumSeq(q) == IF q = <<>> THEN 0 ELSE Head(q) + SumSeq(Tail(q))

\* get_all_reviewers: the set of the names in reviewer_list.split(", ")
get_all_reviewers(metrics) ==
    UNION { { Split(metrics[i].reviewers, CommaSpace)[k] :
                k \in 1 .. Len(Split(metrics[i].reviewers, CommaSpace)) }
            : i \in { j \in 1 .. Len(metrics) : metrics[j].reviewers # <<>> } }

\* get_number_of_reviews: metrics["reviewers"].str.count(reviewer).sum()
get_number_of_reviews(metrics, reviewer) ==
    SumOver(1 .. Len(metrics),
            [i \in 1 .. Len(metrics) |-> CountMatches(metrics[i].reviewers, reviewer)])

\* get_LOC_of_reviewer: lines_of_code summed over the rows whose reviewers cell
\* str.contains(reviewer), NaN dropped
get_LOC_of_reviewer(metrics, reviewer) ==
    SumOver({ i \in 1 .. Len(metrics) :
                 /\ ContainsMatch(metrics[i].reviewers, reviewer)
                 /\ metrics[i].lines_of_code # <<>> },
            [i \in 1 .. Len(metrics) |->
                 IF metrics[i].lines_of_code # <<>> THEN metrics[i].lines_of_code[1] ELSE 0])

\* the loop body of get_average_response_time_hours_of_reviewer for one row:
\* the times it appends to all_times_for_reviewer
TimesOfRow(row, reviewer) ==
    LET reviewers_list == StrippedParts(row.reviewers)
        times_list_str == StrippedParts(row.reviewer_response_times)
    IN  IF row.reviewers = <<>> \/ row.reviewer_response_times = <<>> THEN <<>>
        ELSE IF Len(reviewers_list) # Len(times_list_str) THEN <<>>
        ELSE LET hits == SelectSeq([i \in 1 .. Len(reviewers_list) |-> i],
                                   LAMBDA i : /\ reviewers_list[i] = reviewer
                                              /\ ParseFloat(times_list_str[i]) # <<>>)
             IN  [k \in 1 .. Len(hits) |-> ParseFloat(times_list_str[hits[k]])[1]]

RECURSIVE Flatten(_)
Flatten(qs) == IF qs = <<>> THEN <<>> ELSE Head(qs) \o Flatten(Tail(qs))

RECURSIVE Gcd(_, _)
Gcd(a, b) == IF b = 0 THEN a ELSE Gcd(b, a % b)

\* sum / count as a fraction in lowest terms (count > 0, sum >= 0), in
\* hundredths of an hour
Mean(sum, count) ==
    LET g == Gcd(count, sum) IN [num |-> sum \div g, den |-> count \div g]

\* get_average_response_time_hours_of_reviewer: <<>> for None, else <<mean>>
get_average_response_time_hours_of_reviewer(metrics, reviewer) ==
    LET all_times_for_reviewer ==
            Flatten([i \in 1 .. Len(metrics) |-> TimesOfRow(metrics[i], reviewer)])
    IN  IF all_times_for_reviewer = <<>> THEN <<>>
        ELSE << Mean(SumSeq(all_times_for_reviewer), Len(all_times_for_reviewer)) >>

\* get_number_of_reviews_per_reviewer calls get_number_of_reviews for a reviewer
CountReviews(reviewer) ==
    /\ table # <<>>
    /\ answer.op = "none"
    /\ answer' = [op |-> "count", reviewer |-> reviewer, raised |-> FALSE,
                  val |-> get_number_of_reviews(load_repository_metrics(table), reviewer)]
    /\ UNCHANGED << table, collectorVars, statsVars >>

\* get_LOC_per_reviewer calls get_LOC_of_reviewer for a reviewer
SumLOC(reviewer) ==
    /\ table # <<>>
    /\ answer.op = "none"
    /\ answer' = [op |-> "loc", reviewer |-> reviewer, raised |-> FALSE,
                  val |-> get_LOC_of_reviewer(load_repository_metrics(table), reviewer)]
    /\ UNCHANGED << table, collectorVars, statsVars >>

\* get_average_response_time_hours_per_reviewer calls
\* get_average_response_time_hours_of_reviewer for a reviewer; with a numeric
\* reviewer_response_times column the call raises at row[...].split
AverageResponse(reviewer) ==
    /\ table # <<>>
    /\ answer.op = "none"
    /\ answer' = IF TimesColumnIsNumeric(table)
                 THEN [op |-> "average", reviewer |-> reviewer, raised |-> TRUE,
                       val |-> <<>>]
                 ELSE [op |-> "average", reviewer |-> reviewer, raised |-> FALSE,
                       val |-> get_average_response_time_hours_of_reviewer(
                                   load_repository_metrics(table), reviewer)]
    /\ UNCHANGED << table, collectorVars, statsVars >>

NextReader ==
    \/ \E reviewer \in get_all_reviewers(load_repository_metrics(table)) : CountReviews(reviewer)
    \/ \E reviewer \in get_all_reviewers(load_repository_metrics(table)) : SumLOC(reviewer)
    \/ \E reviewer \in get_all_reviewers(load_repository_metrics(table)) : AverageResponse(reviewer)

(* ----------------------- tables the collector writes ------------------- *)

NullDetails == Details(Field(<<>>), Field(<<1>>), Field(<<2>>))

\* process_pull_request for a pull request the API holds as p: <<>> or <<record>>
ProcessPullRequest(repo, p) ==
    LET reviews_sorted == SortReviews(FilterReviews(p.reviews, p.user))
        reviewers_list == ReviewersList(reviews_sorted)
    IN  IF SkipsPullRequest(Len(reviewers_list)) THEN <<>>
        ELSE << MakeRecord(repo, ListingItem(p), reviewers_list,
                           ResponseTimes(reviews_sorted, p.created_at), p.details) >>

\* the reviewers of a row, in the order of their reviews
RowReviewers ==
    { <<LoginA>>, <<LoginAB>>, <<LoginB>>, <<LoginA, LoginB>>, <<LoginBot>>,
      <<LoginA, LoginAB>>, <<LoginA, LoginA>> }

\* the rows of the tables: a pull request by LoginC created at 3, its i-th
\* review submitted at 1 + 3i
RowChoices ==
    { ProcessPullRequest(1, ServerPR(1, 1, 3, LoginC, "User",
                            [i \in 1 .. Len(names) |-> Review(names[i], <<1 + 3 * i>>)],
                            d))[1] :
        names \in RowReviewers,
        d \in {PlainDetails, NullDetails} }

Tables == UNION { [1 .. n -> RowChoices] : n \in 1 .. MaxRows }

InitReader ==
    /\ table \in Tables
    /\ answer = [op |-> "none"]
    /\ api = PairWorld
    /\ budget = 0
    /\ InitRun
    /\ InitStatsIdle

\* the reader on the tables the collector can write
SpecReader == InitReader /\ [][NextReader]_vars


(* =========================== the statistics ============================ *)

RECURSIVE ValuesOf(_, _)
\* list(data.values()), for the keys `keys` of data
ValuesOf(d, keys) ==
    IF keys = {} THEN <<>>
    ELSE LET k == CHOOSE k1 \in keys : \A k2 \in keys : k1 <= k2
         IN  <<d[k]>> \o ValuesOf(d, keys \ {k})

RECURSIVE InsertNumber(_, _)
InsertNumber(sorted, v) ==
    IF sorted = <<>> THEN <<v>>
    ELSE IF Head(sorted) <= v THEN <<Head(sorted)>> \o InsertNumber(Tail(sorted), v)
    ELSE <<v>> \o sorted

RECURSIVE SortNumbers(_)
SortNumbers(q) ==
    IF q = <<>> THEN <<>> ELSE InsertNumber(SortNumbers(Tail(q)), Head(q))

\* np.percentile(results, 25 * k), times 4: the value at position (n - 1) * k / 4
\* of the sorted results, interpolated linearly between its two neighbours
percentile(results, k) ==
    LET arr == SortNumbers(results)
        n == Len(arr)
        previous == ((n - 1) * k) \div 4
        next == Min(previous + 1, n - 1)
        gamma == ((n - 1) * k) % 4
    IN  4 * arr[previous + 1] + gamma * (arr[next + 1] - arr[previous + 1])

\* Q1 and Q3, times 4
Q1(results) == percentile(results, 1)
Q3(results) == percentile(results, 3)
\* IQR = Q3 - Q1, times 4
IQR(results) == Q3(results) - Q1(results)

\* lower_bound = Q1 - 1.5 * IQR and upper_bound = Q3 + 1.5 * IQR, times 8
lower_bound(results) == 2 * Q1(results) - 3 * IQR(results)
upper_bound(results) == 2 * Q3(results) + 3 * IQR(results)

\* remove_outliers_from_dict keeping every entry
remove_outliers_keep_all(d) == d

\* remove_outliers_from_dict with < for <=
remove_outliers_strict(d) ==
    LET results == ValuesOf(d, DOMAIN d)
    IN  [key \in { k \in DOMAIN d : /\ lower_bound(results) < 8 * d[k]
                                    /\ 8 * d[k] < upper_bound(results) } |-> d[key]]

\* remove_outliers_from_dict: the entries with lower_bound <= value <= upper_bound
remove_outliers_from_dict(d) ==
    LET results == ValuesOf(d, DOMAIN d)
    IN  [key \in { k \in DOMAIN d : /\ lower_bound(results) <= 8 * d[k]
                                    /\ 8 * d[k] <= upper_bound(results) } |-> d[key]]

\* np.subtract.outer(x, y): the pairs of an index of x and an index of y
Pairs(xs, ys) == (1 .. Len(xs)) \X (1 .. Len(ys))

\* num_greater counting only the pairs of equal index
num_greater_elementwise(xs, ys) ==
    Cardinality({ i \in 1 .. Min(Len(xs), Len(ys)) : xs[i] - ys[i] > 0 })

\* num_greater counting the ties too
num_greater_or_equal(xs, ys) ==
    Cardinality({ p \in Pairs(xs, ys) : xs[p[1]] - ys[p[2]] >= 0 })

\* np.sum(diff_matrix > 0)
num_greater(xs, ys) == Cardinality({ p \in Pairs(xs, ys) : xs[p[1]] - ys[p[2]] > 0 })

\* np.sum(diff_matrix < 0)
num_less(xs, ys) == Cardinality({ p \in Pairs(xs, ys) : xs[p[1]] - ys[p[2]] < 0 })

\* num / den (den > 0) as a fraction in lowest terms
Fraction(num, den) ==
    LET g == Gcd(den, IF num < 0 THEN 0 - num ELSE num)
    IN  [num |-> num \div g, den |-> den \div g]

\* cliffs_delta: (num_greater - num_less) / (n1 * n2)
cliffs_delta(xs, ys) ==
    Fraction(num_greater(xs, ys) - num_less(xs, ys), Len(xs) * Len(ys))

\* get_..._per_reviewer with filter_outliers: remove_outliers_from_dict(result)
RemoveOutliers ==
    /\ data # <<>>
    /\ stat.op = "none"
    /\ stat' = [op |-> "filtered", val |-> remove_outliers_from_dict(data)]
    /\ UNCHANGED << data, samples, study, collectorVars, readerVars >>

\* remove_outliers_from_dict on what it returned
RemoveOutliersAgain ==
    /\ stat.op = "filtered"
    /\ stat.val # <<>>
    /\ stat' = [op |-> "filtered_twice", once |-> stat.val,
                val |-> remove_outliers_from_dict(stat.val)]
    /\ UNCHANGED << data, samples, study, collectorVars, readerVars >>

\* run_cliffs_delta: cliffs_delta(industry_values, community_values)
CliffsDelta ==
    /\ samples.x # <<>>
    /\ samples.y # <<>>
    /\ stat.op = "none"
    /\ stat' = [op |-> "cliffs_delta", val |-> cliffs_delta(samples.x, samples.y)]
    /\ UNCHANGED << data, samples, study, collectorVars, readerVars >>

\* Repository.is_industry_backed: the first half of the registry is
is_industry_backed(r) == r <= (StudyRepos + 1) \div 2

\* a dict is the sequence of its << key, value >> items, in the order the keys
\* were first set
Keys(d) == { d[i][1] : i \in DOMAIN d }
Get(d, k) == d[CHOOSE i \in DOMAIN d : d[i][1] = k][2]

\* d[k] = v: a key the dict has keeps its place, a new one goes last
Put(d, k, v) ==
    IF k \in Keys(d) THEN [i \in DOMAIN d |-> IF d[i][1] = k THEN << k, v >> ELSE d[i]]
    ELSE Append(d, << k, v >>)

RECURSIVE update_keeping_first(_, _)
\* dict.update keeping the value a key already has
update_keeping_first(acc, d) ==
    IF d = <<>> THEN acc
    ELSE update_keeping_first(IF Head(d)[1] \in Keys(acc) THEN acc
                              ELSE Put(acc, Head(d)[1], Head(d)[2]),
                              Tail(d))

RECURSIVE update(_, _)
\* industry.update(data): the items of data are set one after the other
update(acc, d) ==
    IF d = <<>> THEN acc ELSE update(Put(acc, Head(d)[1], Head(d)[2]), Tail(d))

\* metric_func(repo), for the first or the second metric function
MetricOf(repo_data, m) == IF m = 1 THEN repo_data.data1 ELSE repo_data.data2

RECURSIVE Collect(_, _, _, _)
\* the loop `for repo in repositories` over the first n repositories: the dict
\* of the category (industry for flag TRUE, community for FALSE)
Collect(st, flag, m, n) ==
    IF n = 0 THEN <<>>
    ELSE IF is_industry_backed(n) = flag
         THEN update(Collect(st, flag, m, n - 1), MetricOf(st[n], m))
         ELSE Collect(st, flag, m, n - 1)

\* list(d.values())
Values(d) == [i \in DOMAIN d |-> d[i][2]]

\* industry_values = list(industry.values()), community_values likewise
GroupValues(st, flag) == Values(Collect(st, flag, 1, Len(st)))

\* the smallest sample the test takes
MinSize(kind) == IF kind = "shapiro" THEN 3 ELSE 1

\* what a call of the test gives for samples of these sizes: a result; below
\* the smallest size scipy raises ValueError or gives nan, by its version, and
\* cliffs_delta divides 0 by 0, which numpy gives as nan
CallTest(kind, sizes) ==
    IF \A i \in DOMAIN sizes : sizes[i] >= MinSize(kind) THEN {"result"}
    ELSE IF kind = "cliffs_delta" THEN {"nan"}
    ELSE {"raised", "nan"}

TestCall(sizes, outcome) == [sizes |-> sizes, outcome |-> outcome]

\* run_mannwhitney_test, run_shapiro_test, run_kruskal_test, run_cliffs_delta:
\* the calls of the test they make, with their outcomes; an exception ends the run
RunCalls(kind, xs, ys) ==
    IF kind = "shapiro"
    THEN { << TestCall(<<Len(xs)>>, o) >> :
               o \in CallTest(kind, <<Len(xs)>>) \cap {"raised"} }
         \cup { << TestCall(<<Len(xs)>>, o[1]), TestCall(<<Len(ys)>>, o[2]) >> :
                   o \in (CallTest(kind, <<Len(xs)>>) \ {"raised"})
                            \X CallTest(kind, <<Len(ys)>>) }
    ELSE { << TestCall(<<Len(xs), Len(ys)>>, o) >> :
               o \in CallTest(kind, <<Len(xs), Len(ys)>>) }

\* the four tests that compare the industry and the community group
RunTest(kind) ==
    /\ study # <<>>
    /\ stat.op = "none"
    /\ \E calls \in RunCalls(kind, GroupValues(study, TRUE), GroupValues(study, FALSE)) :
          stat' = [op |-> "run_test", kind |-> kind,
                   industry_values |-> GroupValues(study, TRUE),
                   community_values |-> GroupValues(study, FALSE),
                   calls |-> calls,
                   raised |-> \E i \in DOMAIN calls : calls[i].outcome = "raised"]
    /\ UNCHANGED << data, samples, study, collectorVars, readerVars >>

\* test_shapiro_num_reviews_categories, test_mannwhitney_num_reviews_categories,
\* test_cliffs_delta_num_reviews_categories: they call
\* aggregate_num_reviews_by_category, whose loop over the repositories calls
\* get_reviewer_categories_by_num_reviews (line 260), a name no module defines:
\* NameError, before any test is called or notice printed
TestCategory(kind) ==
    /\ study # <<>>
    /\ stat.op = "none"
    /\ stat' = [op |-> "test_categories", kind |-> kind, calls |-> <<>>, raised |-> TRUE]
    /\ UNCHANGED << data, samples, study, collectorVars, readerVars >>

\* import Statistics: `from DataHandler import (...)` (lines 7-13) asks for
\* get_reviewer_categories_by_num_reviews, which DataHandler does not define:
\* ImportError. The other actions are the functions of the module as they run
\* once it is loaded with that name supplied
ImportStatistics ==
    /\ stat.op = "none"
    /\ stat' = [op |-> "import", raised |-> TRUE]
    /\ UNCHANGED << data, samples, study, collectorVars, readerVars >>

\* the orders a set of names can be iterated in
Orders(S) ==
    { q \in [1 .. Cardinality(S) -> S] :
         \A i, j \in 1 .. Cardinality(S) : q[i] = q[j] => i = j }

\* set(d1.keys()) & set(d2.keys())
CommonReviewers(st, flag) ==
    Keys(Collect(st, flag, 1, Len(st))) \cap Keys(Collect(st, flag, 2, Len(st)))

\* run_spearman_corr sending every value of both dicts to spearmanr
SpearmanOfAll(st, flag, order) ==
    LET d1 == Collect(st, flag, 1, Len(st))
        d2 == Collect(st, flag, 2, Len(st))
    IN  IF CommonReviewers(st, flag) # {}
        THEN [computed |-> TRUE, notice |-> FALSE,
              values1 |-> Values(d1), values2 |-> Values(d2)]
        ELSE [computed |-> FALSE, notice |-> TRUE, values1 |-> <<>>, values2 |-> <<>>]

\* run_spearman_corr for one category: the values of the common reviewers go to
\* spearmanr, both lists in the order the set of them is iterated in, or the
\* notice is printed
SpearmanOf(st, flag, order) ==
    LET d1 == Collect(st, flag, 1, Len(st))
        d2 == Collect(st, flag, 2, Len(st))
    IN  IF CommonReviewers(st, flag) # {}
        THEN [computed |-> TRUE, notice |-> FALSE,
              values1 |-> [i \in DOMAIN order |-> Get(d1, order[i])],
              values2 |-> [i \in DOMAIN order |-> Get(d2, order[i])]]
        ELSE [computed |-> FALSE, notice |-> TRUE, values1 |-> <<>>, values2 |-> <<>>]

\* the order a set is iterated in is the interpreter's (the hash seed's) choice
RunSpearman ==
    /\ study # <<>>
    /\ stat.op = "none"
    /\ \E oi \in Orders(CommonReviewers(study, TRUE)),
          oc \in Orders(CommonReviewers(study, FALSE)) :
          stat' = [op |-> "run_spearman_corr",
                   industry |-> SpearmanOf(study, TRUE, oi),
                   community |-> SpearmanOf(study, FALSE, oc)]
    /\ UNCHANGED << data, samples, study, collectorVars, readerVars >>

NextStats ==
    \/ RemoveOutliers
    \/ RemoveOutliersAgain
    \/ CliffsDelta
    \/ \E kind \in {"mannwhitney", "shapiro", "kruskal", "cliffs_delta"} : RunTest(kind)
    \/ \E kind \in {"mannwhitney", "shapiro", "cliffs_delta"} : TestCategory(kind)
    \/ RunSpearman
    \/ ImportStatistics

\* the mappings of reviewers 1 .. n to a value each
Mappings == UNION { [1 .. n -> 0 .. MaxValue] : n \in 1 .. MaxKeys }

Samples == UNION { [1 .. n -> 0 .. MaxValue] : n \in 1 .. MaxSample }

\* the reviewers of the study
StudyReviewers == {1, 2, 3}

\* what metric function m returns for reviewer k of repository r: a number
\* that tells the three apart
ValueIn(m, r, k) == 100 * m + 10 * r + k

RECURSIVE DictOf(_, _, _)
\* the dict metric function m returns for repository r and its reviewers K: the
\* keys are those of get_all_reviewers, a sorted list
DictOf(m, r, K) ==
    IF K = {} THEN <<>>
    ELSE LET last == CHOOSE k \in K : \A q \in K : q <= k
         IN  Append(DictOf(m, r, K \ {last}), << last, ValueIn(m, r, last) >>)

\* what the metric functions return for repository r: the first for the
\* reviewers K1, the second for K2
RepoData(r, K1, K2) == [data1 |-> DictOf(1, r, K1), data2 |-> DictOf(2, r, K2)]

\* per repository, both metric functions know the same reviewers, any of them,
\* or the second knows some of the first's, which are among the first two
RepoChoices(r) ==
    { RepoData(r, K, K) : K \in SUBSET StudyReviewers }
        \cup { RepoData(r, K[1], K[2]) :
                  K \in { L \in (SUBSET (StudyReviewers \ {3})) \X (SUBSET (StudyReviewers \ {3})) :
                             L[2] \subseteq L[1] } }

RECURSIVE StudiesOf(_)
\* what the metric functions can return for the first n repositories
StudiesOf(n) ==
    IF n = 0 THEN { <<>> }
    ELSE { Append(st, d) : st \in StudiesOf(n - 1), d \in RepoChoices(n) }

StudyWorlds == StudiesOf(StudyRepos)

InitStats ==
    /\ \/ data \in Mappings /\ samples = [x |-> <<>>, y |-> <<>>] /\ study = <<>>
       \/ /\ data = <<>>
          /\ samples \in [x : Samples, y : Samples]
          /\ study = <<>>
       \/ data = <<>> /\ samples = [x |-> <<>>, y |-> <<>>] /\ study \in StudyWorlds
    /\ stat = [op |-> "none"]
    /\ api = PairWorld
    /\ budget = 0
    /\ InitRun
    /\ InitReaderIdle

\* the statistics on mappings and samples of small numbers
SpecStats == InitStats /\ [][NextStats]_vars


(* ======================= the claims: the collector ===================== *)

\* the pull requests of a repository's listing that are in the window and no bot's
InWindow(l) ==
    SelectSeq(l, LAMBDA p : p.type # "Bot" /\ StartDate <= p.created_at
                                           /\ p.created_at < EndDate)

\* the pull request has a review with a user and a submission time, not its author's
HasQualifyingReview(p) ==
    \E i \in 1 .. Len(p.reviews) :
        /\ p.reviews[i].user # <<>>
        /\ p.reviews[i].submitted_at # <<>>
        /\ p.reviews[i].user # p.user

Numbers(l) == [i \in 1 .. Len(l) |-> l[i].number]
RecordNumbers(l) == [i \in 1 .. Len(l) |-> l[i].pr_number]

\* every record there is: in a written table or returned by a task
SavedRecords ==
    UNION { { saved[r].rows[i] : i \in 1 .. Len(saved[r].rows) } : r \in 1 .. Len(saved) }
TaskRecords == { tasks[i].result[1] : i \in { j \in DOMAIN tasks : tasks[j].result # <<>> } }
AllRecords == SavedRecords \cup TaskRecords

InCooldown(c) == c \in DOMAIN req /\ req[c].st \in {"cooldown_in", "cooldown_out"}
Sending(c) == c \in DOMAIN req /\ req[c].st = "inflight"

\* C1: at no time are more GETs in flight than api_semaphore has permits
\* (SemaphoreLimit, 10 in the source), whatever the order of the responses and
\* however many of them were failures that are being retried.
C1_InFlightBounded == Cardinality(InFlight) <= SemaphoreLimit

\* C1, its case: after a failed response every permit carries a GET and a
\* further caller waits for one
C1_Witness ==
    /\ Cardinality(InFlight) = SemaphoreLimit
    /\ waiters # <<>>
    /\ budget < MaxFailures

\* C2: a request that failed (non-200 status or exception) is sent again
\* after its cooldown, whatever else is in flight or failing.
C2_FailedRequestIsSentAgain ==
    \A c \in 0 .. x : [](InCooldown(c) => <>Sending(c))

\* C3: when get_pull_requests_by_date returns, pr_list holds exactly the
\* pull requests of the listing that are no bot's and were created at or after
\* start_date and before end_date, in listing order.
C3_ListingIsWindow ==
    mainPc = "dispatch" =>
        pr_list = InWindow([k \in 1 .. Len(api.listing[repoIx]) |->
                               ListingItem(api.listing[repoIx][k])])

\* C3, its case: the listing spans several pages and holds a pull request
\* created at start_date, one created at end_date, one older and a bot's
C3_Witness ==
    /\ mainPc = "dispatch"
    /\ page > 1
    /\ \E i, j, k, b \in 1 .. Len(api.listing[repoIx]) :
          /\ api.listing[repoIx][i].created_at = StartDate
          /\ api.listing[repoIx][i].type = "User"
          /\ api.listing[repoIx][j].created_at = EndDate
          /\ api.listing[repoIx][k].created_at < StartDate
          /\ api.listing[repoIx][b].type = "Bot"
          /\ api.listing[repoIx][b].created_at = StartDate + 1
    /\ Len(pr_list) >= 1

\* C4, as claimed: the table of a repository holds one record for each pull
\* request of the window with a qualifying review, however many the window holds,
\* and no other record.
C4_EveryReviewedPullRequest ==
    \A r \in 1 .. Len(saved) :
        RecordNumbers(saved[r].rows) =
            Numbers(SelectSeq(InWindow(api.listing[r]), HasQualifyingReview))

\* C4, amended: the table of a repository holds one record for each pull
\* request with a qualifying review among the first x (2300 in the source) of the
\* window in listing order, in that order, and no other record.
C4_EveryReviewedPullRequestOfTheFirstX ==
    \A r \in 1 .. Len(saved) :
        RecordNumbers(saved[r].rows) =
            Numbers(SelectSeq(SubSeq(InWindow(api.listing[r]), 1,
                                     Min(x, Len(InWindow(api.listing[r])))),
                              HasQualifyingReview))

\* C4, its case: a table written for a window of more than x pull requests,
\* with a record in it and a reviewed pull request left out
C4_Witness ==
    /\ Len(saved) >= 1
    /\ Len(InWindow(api.listing[1])) > x
    /\ saved[1].rows # <<>>
    /\ HasQualifyingReview(api.listing[1][Len(api.listing[1])])
    /\ budget < MaxFailures

\* C5: in every record the reviewers column and the reviewer_response_times
\* column hold as many entries as num_reviews says.
C5_TimesMatchReviewers ==
    \A rec \in AllRecords :
        /\ Len(StrippedParts(rec.reviewers)) = rec.num_reviews
        /\ Len(StrippedParts(rec.reviewer_response_times)) = rec.num_reviews

\* C5, its case: a record of two reviews, the second submitted with the first
C5_Witness ==
    \E rec \in AllRecords :
        /\ rec.num_reviews = 2
        /\ StrippedParts(rec.reviewer_response_times)[2] = <<"0", ".", "0", "0">>

\* C6: no record has num_reviews = 0, and a pull request whose reviews are
\* all excluded (none, the author's, without user or submission time) has no
\* record in the table.
C6_NoRecordWithoutReview ==
    /\ \A rec \in AllRecords : rec.num_reviews > 0
    /\ \A r \in 1 .. Len(saved) : \A i \in 1 .. Len(api.listing[r]) :
          ~HasQualifyingReview(api.listing[r][i]) =>
              \A k \in 1 .. Len(saved[r].rows) :
                  saved[r].rows[k].pr_number # api.listing[r][i].number

\* C6, its case: the table is written for a pull request of the window that
\* has reviews, none of them qualifying
C6_Witness ==
    /\ Len(saved) >= 1
    /\ saved[1].rows = <<>>
    /\ \E i \in 1 .. Len(InWindow(api.listing[1])) :
          /\ Len(InWindow(api.listing[1])[i].reviews) = MaxReviews
          /\ ~HasQualifyingReview(InWindow(api.listing[1])[i])

\* C7: a table is written for a repository only when every URL requested
\* for it and for the repositories before it has been answered with 200: while
\* one request stays unanswered, no table of this or a later repository exists.
C7_NoTableWhileRequestPending ==
    \A r \in 1 .. Len(saved) :
        \A u \in requested : u.repo <= r => u \in succeeded

\* C7, its case: every other task has returned, one request can never be
\* answered (it waits for a permit that no one will give back), and the table of
\* the repository is not written
C7_Witness ==
    /\ mainPc = "gather"
    /\ Len(saved) < repoIx
    /\ \E i \in DOMAIN tasks :
          /\ req[i].st = "waiting"
          /\ \A j \in DOMAIN tasks \ {i} : tasks[j].pc = "done"
    /\ permits = 0
    /\ InFlight = {}
    /\ \A c \in DOMAIN req : ~InCooldown(c)

\* C15: every table main writes has the columns repo, pr_number, user,
\* created_at, merged_at, closed_at, num_reviews, reviewers,
\* reviewer_response_times, response_time_hours, review_time_hours, lines_of_code,
\* changed_files, url, in this order, whatever the number of its records.
C15_TableHasTheColumns ==
    \A r \in 1 .. Len(saved) :
        saved[r].columns =
            << "repo", "pr_number", "user", "created_at", "merged_at", "closed_at",
               "num_reviews", "reviewers", "reviewer_response_times",
               "response_time_hours", "review_time_hours", "lines_of_code",
               "changed_files", "url" >>

\* extract_review_metrics is running for a repository
Extracting == mainPc \in {"listing", "dispatch", "gather"}

\* C16: with finitely many failed responses, extract_review_metrics
\* eventually returns, in every interleaving of the tasks and however many requests
\* fail together: the tasks do not deadlock on api_semaphore.
C16_ExtractReviewMetricsReturns == [](Extracting => <>(~Extracting))

\* the listing URLs and the task URLs (reviews, details) in the history
ListingUrls(urls) == { u \in urls : u.kind = "pulls" }
TaskUrls(urls) == { u \in urls : u.kind # "pulls" }

\* C17: page k + 1 of a repository's listing is requested only after page k
\* was received with 200 (the pages go 1, 2, 3, ...), and a reviews or details
\* request of the repository only after its listing has finished: every page
\* requested was received and get_pull_requests_by_date asks for no other.
C17_PagesInOrderBeforeTasks ==
    /\ \A u \in ListingUrls(requested) :
          \A k \in 1 .. u.id - 1 :
              [kind |-> "pulls", repo |-> u.repo, id |-> k] \in succeeded
    /\ \A u \in TaskUrls(requested) :
          /\ \A v \in ListingUrls(requested) : v.repo = u.repo => v \in succeeded
          /\ u.repo = repoIx => (mainPc \in {"gather", "done"} /\ req[0].st = "idle")

\* C17, its case: a listing of three pages, one of them asked for again after
\* a failed response, and a task's request under way
C17_Witness ==
    /\ [kind |-> "pulls", repo |-> 1, id |-> 3] \in requested
    /\ budget < MaxFailures
    /\ repoIx = 1
    /\ \E c \in InFlight : c > 0
    /\ saved = <<>>

\* the listing pull requests extract_review_metrics keeps for repository r
Kept(r) ==
    SubSeq(InWindow(api.listing[r]), 1, Min(x, Len(InWindow(api.listing[r]))))

\* the records of repository r in the order of its listing: the record of each
\* kept pull request, computed from what the API holds for it
RecordsInListingOrder(r) ==
    Flatten([k \in 1 .. Len(Kept(r)) |-> ProcessPullRequest(r, Kept(r)[k])])

\* C18: the records extract_review_metrics returns are, in content and in
\* order, those of the listing, in whatever order the tasks returned: each task
\* returns the record of its pull request, gather hands them over in listing order.
C18_RecordsInListingOrder ==
    /\ \A r \in 1 .. Len(saved) : saved[r].rows = RecordsInListingOrder(r)
    /\ (mainPc = "gather" /\ \A i \in DOMAIN tasks : tasks[i].pc = "done") =>
            /\ \A i \in DOMAIN tasks :
                  tasks[i].result = ProcessPullRequest(repoIx, Kept(repoIx)[i])
            /\ \A i, j \in DOMAIN tasks :
                  (i < j /\ tasks[i].result # <<>> /\ tasks[j].result # <<>>) =>
                      \E m, n \in 1 .. Len(RecordsInListingOrder(repoIx)) :
                          /\ m < n
                          /\ RecordsInListingOrder(repoIx)[m] = tasks[i].result[1]
                          /\ RecordsInListingOrder(repoIx)[n] = tasks[j].result[1]

\* C18, its case: every task has returned, and of two that returned a
\* record the later of the listing returned first
C18_Witness ==
    /\ mainPc = "gather"
    /\ \A i \in DOMAIN tasks : tasks[i].pc = "done"
    /\ \E i, j \in DOMAIN tasks :
          /\ i < j
          /\ tasks[i].rank > tasks[j].rank
          /\ tasks[i].result # <<>>
          /\ tasks[j].result # <<>>

\* the qualifying reviews of a pull request the API holds, in the API's order
QualifyingReviews(p) ==
    SelectSeq(p.reviews, LAMBDA rv : /\ rv.user # <<>>
                                      /\ rv.submitted_at # <<>>
                                      /\ rv.user # p.user)

\* their submission times, earliest first
QualifyingTimes(p) ==
    SortNumbers([i \in 1 .. Len(QualifyingReviews(p)) |->
                    QualifyingReviews(p)[i].submitted_at[1]])

\* C19: in every record the first response latency is the time from the pull
\* request's creation to its earliest qualifying review, the i-th the time from
\* the (i-1)-th to the i-th qualifying review in submission order (as the column
\* writes it, with two decimals), and response_time_hours is the first latency.
C19_LatenciesBetweenReviews ==
    \A rec \in AllRecords :
        LET p == ServerLookup(rec.repo, rec.pr_number)
            q == QualifyingTimes(p)
            cells == Split(rec.reviewer_response_times, CommaSpace)
        IN  /\ Len(cells) = Len(q)
            /\ \A i \in 1 .. Len(q) :
                  cells[i] = Format2f(q[i] - (IF i = 1 THEN p.created_at ELSE q[i - 1]))
            /\ rec.response_time_hours = << q[1] - p.created_at >>

\* C19, its case: a record of two reviews the API returned latest first, the
\* earliest two units after the creation, the other one unit later
C19_Witness ==
    \E rec \in AllRecords :
        LET p == ServerLookup(rec.repo, rec.pr_number) IN
        /\ rec.num_reviews = 2
        /\ Len(p.reviews) = 2
        /\ p.reviews[1].submitted_at = <<5>>
        /\ p.reviews[2].submitted_at = <<4>>
        /\ rec.response_time_hours = <<1>>

\* C20: in every record the reviewers stand in non-decreasing order of the
\* submission times of their reviews, whatever the order the API returned the
\* reviews in, and no response latency is negative.
C20_ReviewersInSubmissionOrder ==
    \A rec \in AllRecords :
        LET qs == QualifyingReviews(ServerLookup(rec.repo, rec.pr_number))
            names == Split(rec.reviewers, CommaSpace)
            cells == Split(rec.reviewer_response_times, CommaSpace)
        IN  /\ \E order \in [1 .. Len(qs) -> 1 .. Len(qs)] :
                  /\ \A i, j \in 1 .. Len(qs) : order[i] = order[j] => i = j
                  /\ Len(names) = Len(qs)
                  /\ \A i \in 1 .. Len(qs) : names[i] = qs[order[i]].user
                  /\ \A i \in 1 .. Len(qs) - 1 :
                        qs[order[i]].submitted_at[1] <= qs[order[i + 1]].submitted_at[1]
            /\ \A i \in 1 .. Len(cells) :
                  ParseFloat(cells[i]) # <<>> /\ ParseFloat(cells[i])[1] >= 0
            /\ rec.response_time_hours[1] >= 0

\* C20, its case: the API returned LoginB's review before LoginA's earlier one
C20_Witness ==
    \E rec \in AllRecords :
        LET p == ServerLookup(rec.repo, rec.pr_number) IN
        /\ Len(p.reviews) = 2
        /\ p.reviews[1] = Review(LoginB, <<5>>)
        /\ p.reviews[2] = Review(LoginA, <<4>>)
        /\ rec.reviewers = Join(<<LoginA, LoginB>>, CommaSpace)

\* the submission times of the reviews of p that have a user other than the
\* author of p and a submission time, earliest first
TimesOfOthers(p) ==
    SortNumbers([i \in 1 .. Len(SelectSeq(p.reviews, LAMBDA rv :
                        rv.user # <<>> /\ rv.submitted_at # <<>> /\ rv.user # p.user)) |->
                    SelectSeq(p.reviews, LAMBDA rv :
                        rv.user # <<>> /\ rv.submitted_at # <<>> /\ rv.user # p.user)[i]
                            .submitted_at[1]])

\* C21: in every record no entry of the reviewers column is the pull
\* request's author, and the author's own reviews move no reference time: each
\* latency runs from the creation or from the previous review by somebody else.
C21_AuthorNeitherListedNorCounted ==
    \A rec \in AllRecords :
        LET p == ServerLookup(rec.repo, rec.pr_number)
            names == Split(rec.reviewers, CommaSpace)
            cells == Split(rec.reviewer_response_times, CommaSpace)
            others == TimesOfOthers(p)
        IN  /\ \A i \in 1 .. Len(names) : names[i] # p.user
            /\ rec.num_reviews = Len(others)
            /\ Len(cells) = Len(others)
            /\ \A i \in 1 .. Len(others) :
                  cells[i] = Format2f(others[i] -
                                (IF i = 1 THEN p.created_at ELSE others[i - 1]))

\* C21, its case: the author reviewed one unit after the creation, LoginA one
\* unit later; the record lists LoginA alone, two units after the creation
C21_Witness ==
    \E rec \in AllRecords :
        LET p == ServerLookup(rec.repo, rec.pr_number) IN
        /\ p.reviews = << Review(p.user, <<4>>), Review(LoginA, <<5>>) >>
        /\ rec.reviewers = LoginA
        /\ rec.response_time_hours = <<2>>

\* C22: at every point the two rate-limit counters hold their initial values
\* or the two header values of one single 200 response: never the remaining of
\* one response next to the reset of another.
C22_CountersOfOneResponse ==
    \E n \in 0 .. served :
        /\ ratelimit_remaining = (IF n = 0 THEN RateLimit ELSE HeadersOf(n, "both").remaining[1])
        /\ ratelimit_reset = (IF n = 0 THEN 0 ELSE HeadersOf(n, "both").reset[1])

\* the permits of api_semaphore a call holds: those of its suspended outer
\* invocations, and that of the innermost while it is inside the semaphore
PermitsOf(c) ==
    req[c].held + (IF req[c].st \in {"inflight", "reading_body", "cooldown_in"} THEN 1 ELSE 0)

\* C23: a call keeps one permit for each non-200 response it has had, during
\* the cooldown and while its retry waits for a further one or has it (after k
\* non-200 responses it holds k permits and waits for the next); the cooldown after
\* an exception holds no permit of its own. The permits the calls hold are those
\* missing from api_semaphore.
C23_PermitKeptForEachNon200 ==
    /\ \A c \in DOMAIN req :
          /\ req[c].st \in {"cooldown_in", "cooldown_out", "waiting"} =>
                PermitsOf(c) = req[c].not200
          /\ req[c].st \in {"inflight", "reading_body"} =>
                PermitsOf(c) = req[c].not200 + 1
          /\ req[c].st = "idle" => PermitsOf(c) = 0
    /\ permits + SumOver(DOMAIN req, [c \in DOMAIN req |-> PermitsOf(c)]) = SemaphoreLimit

\* C23, its case: a call holds every permit after as many non-200 responses
\* and waits for a further one, while another sleeps after an exception with none
C23_Witness ==
    \E c, d \in DOMAIN req :
        /\ req[c].st = "waiting"
        /\ req[c].not200 = SemaphoreLimit
        /\ PermitsOf(c) = SemaphoreLimit
        /\ req[d].st = "cooldown_out"
        /\ PermitsOf(d) = 0
        /\ permits = 0

\* C24: extract_review_metrics processes at most x (2300 in the source) pull
\* requests of a repository: it makes a task, and sends reviews and details
\* requests, only for the first x of the window in listing order, and the table
\* has at most x records.
C24_AtMostXProcessed ==
    /\ Len(tasks) <= x
    /\ \A u \in TaskUrls(requested) :
          \E k \in 1 .. Min(x, Len(InWindow(api.listing[u.repo]))) :
              InWindow(api.listing[u.repo])[k].number = u.id
    /\ \A r \in 1 .. Len(saved) : Len(saved[r].rows) <= x

\* C24, its case: the window holds more than x pull requests, the table is
\* written, and the reviews of each of the first x were asked for
C24_Witness ==
    /\ Len(InWindow(api.listing[1])) > x
    /\ Len(saved) >= 1
    /\ \A k \in 1 .. x :
          [kind |-> "reviews", repo |-> 1, id |-> InWindow(api.listing[1])[k].number]
              \in requested

\* C25: the details request of a pull request is sent only after its reviews
\* request was answered with 200, and never for a pull request without a
\* qualifying review.
C25_DetailsAfterReviews ==
    \A u \in requested :
        u.kind = "details" =>
            /\ [kind |-> "reviews", repo |-> u.repo, id |-> u.id] \in succeeded
            /\ HasQualifyingReview(ServerLookup(u.repo, u.id))

\* C25, its case: a response has failed, the task of a pull request without a
\* qualifying review has returned, and the details of another pull request
\* were asked for
C25_Witness ==
    /\ mainPc = "gather"
    /\ budget < MaxFailures
    /\ \E i \in DOMAIN tasks :
          /\ tasks[i].pc = "done"
          /\ ~HasQualifyingReview(ServerLookup(repoIx, tasks[i].pr.number))
          /\ req[i].st = "idle"
    /\ \E u \in requested : u.kind = "details" /\ u.repo = repoIx

\* the details response lacks the field or carries it as null
Absent(field) == ~field.has \/ field.val = <<>>

\* C26: when the details response lacks additions, deletions or
\* changed_files, or carries it as null, the record is still produced, with
\* lines_of_code (for additions, deletions) or changed_files (for changed_files)
\* recorded as missing, not as a number.
C26_AbsentFieldIsMissingValue ==
    /\ \A rec \in AllRecords :
          LET d == ServerLookup(rec.repo, rec.pr_number).details IN
          /\ (Absent(d.additions) \/ Absent(d.deletions)) => rec.lines_of_code = <<>>
          /\ Absent(d.changed_files) => rec.changed_files = <<>>
    /\ \A r \in 1 .. Len(saved) :
          \A k \in 1 .. Len(InWindow(api.listing[r])) :
              HasQualifyingReview(InWindow(api.listing[r])[k]) =>
                  \E i \in 1 .. Len(saved[r].rows) :
                      saved[r].rows[i].pr_number = InWindow(api.listing[r])[k].number

(* ========================= the claims: the reader ====================== *)

\* the names of a row's reviewers cell, one entry per review
Entries(row) == Split(row.reviewers, CommaSpace)

\* the response times of a row, in hundredths of an hour, one per review
EntryTimes(row) ==
    LET cells == Split(row.reviewer_response_times, CommaSpace)
    IN  [i \in 1 .. Len(cells) |-> ParseFloat(cells[i])[1]]

\* the rows of the table whose first reviewer is `reviewer`
RowsFirstReviewedBy(reviewer) == { i \in 1 .. Len(table) : Entries(table[i])[1] = reviewer }

\* C8: get_average_response_time_hours_of_reviewer returns the mean of the
\* first response time over the rows whose first reviewer is the reviewer (None
\* when there is no such row); no later review contributes.
C8_MeanOverFirstReviewsOnly ==
    (answer.op = "average" /\ ~answer.raised) =>
        answer.val =
            IF RowsFirstReviewedBy(answer.reviewer) = {} THEN <<>>
            ELSE << Mean(SumOver(RowsFirstReviewedBy(answer.reviewer),
                                 [i \in 1 .. Len(table) |-> EntryTimes(table[i])[1]]),
                         Cardinality(RowsFirstReviewedBy(answer.reviewer))) >>

\* C9: get_number_of_reviews_per_reviewer gives a reviewer the number of
\* entries equal to that reviewer in the reviewer lists of all rows.
C9_CountIsNumberOfEntries ==
    answer.op = "count" =>
        answer.val =
            SumOver(1 .. Len(table),
                    [i \in 1 .. Len(table) |->
                        Cardinality({ k \in 1 .. Len(Entries(table[i])) :
                                         Entries(table[i])[k] = answer.reviewer })])

\* C10: get_LOC_of_reviewer returns the sum of lines_of_code over the rows
\* whose reviewer list has the reviewer as an entry, each row once, rows with a
\* missing lines_of_code adding nothing; no other row contributes.
C10_LOCOverOwnRows ==
    answer.op = "loc" =>
        answer.val =
            SumOver({ i \in 1 .. Len(table) :
                         /\ \E k \in 1 .. Len(Entries(table[i])) :
                               Entries(table[i])[k] = answer.reviewer
                         /\ table[i].lines_of_code # <<>> },
                    [i \in 1 .. Len(table) |->
                        IF table[i].lines_of_code # <<>> THEN table[i].lines_of_code[1]
                        ELSE 0])

\* the latencies of `reviewer` in a row: the times at the places of the
\* reviewers cell that name the reviewer
OwnLatencies(row, reviewer) ==
    LET at == SelectSeq([k \in 1 .. Len(Entries(row)) |-> k],
                        LAMBDA k : Entries(row)[k] = reviewer)
    IN  [j \in 1 .. Len(at) |-> EntryTimes(row)[at[j]]]

\* the row passes the alignment check: both cells split on commas into lists
\* of one length, and every time reads as a number
PassesAlignmentCheck(row) ==
    /\ Len(StrippedParts(row.reviewers)) = Len(StrippedParts(row.reviewer_response_times))
    /\ \A k \in 1 .. Len(StrippedParts(row.reviewer_response_times)) :
          ParseFloat(StrippedParts(row.reviewer_response_times)[k]) # <<>>

\* the rows align and the mean is over the reviewer's own latencies, in the
\* tables whose reviewer_response_times column reads as text
AlignedWhenTheColumnIsText ==
    (answer.op = "average" /\ ~TimesColumnIsNumeric(table)) =>
        /\ ~answer.raised
        /\ \A i \in 1 .. Len(table) : PassesAlignmentCheck(table[i])
        /\ LET own == Flatten([i \in 1 .. Len(table) |->
                                   OwnLatencies(table[i], answer.reviewer)])
           IN  answer.val = << Mean(SumSeq(own), Len(own)) >>

\* C30: every row process_pull_request produced, stored and read back, passes
\* the alignment check of get_average_response_time_hours_of_reviewer, which so
\* skips no row and pairs each reviewer with that reviewer's own latencies
C30_CollectorRowsPassTheAlignmentCheck ==
    answer.op = "average" =>
        /\ ~answer.raised
        /\ \A i \in 1 .. Len(table) : PassesAlignmentCheck(table[i])
        /\ LET own == Flatten([i \in 1 .. Len(table) |->
                                   OwnLatencies(table[i], answer.reviewer)])
           IN  answer.val = << Mean(SumSeq(own), Len(own)) >>

(* ======================= the claims: the statistics ==================== *)

\* the values of a mapping all lie within its own bounds
AllWithin(d) ==
    \A k \in DOMAIN d :
        /\ lower_bound(ValuesOf(d, DOMAIN d)) <= 8 * d[k]
        /\ 8 * d[k] <= upper_bound(ValuesOf(d, DOMAIN d))

\* C11: remove_outliers_from_dict returns exactly the entries of its input
\* whose value lies between Q1 - 1.5 IQR and Q3 + 1.5 IQR of the input's values:
\* a kept entry keeps key and value, none is added, every dropped one is outside.
C11_ExactlyTheEntriesWithinBounds ==
    stat.op = "filtered" =>
        /\ DOMAIN stat.val \subseteq DOMAIN data
        /\ \A k \in DOMAIN stat.val : stat.val[k] = data[k]
        /\ \A k \in DOMAIN data :
              k \in DOMAIN stat.val <=>
                  /\ lower_bound(ValuesOf(data, DOMAIN data)) <= 8 * data[k]
                  /\ 8 * data[k] <= upper_bound(ValuesOf(data, DOMAIN data))

\* C11, its case: of a mapping of MaxKeys entries one is dropped, the others kept
C11_Witness ==
    /\ stat.op = "filtered"
    /\ Cardinality(DOMAIN data) = MaxKeys
    /\ Cardinality(DOMAIN stat.val) = MaxKeys - 1

\* C12: a mapping whose values all lie within its own bounds is returned
\* unchanged by remove_outliers_from_dict, and so is what it returned: twice gives
\* what once gives.
C12_UnchangedWithinBounds ==
    /\ (stat.op = "filtered" /\ AllWithin(data)) => stat.val = data
    /\ (stat.op = "filtered_twice" /\ AllWithin(data)) =>
            (stat.once = data /\ stat.val = stat.once)

\* C12, its case: remove_outliers_from_dict applied twice to a mapping of MaxKeys
\* entries, not all equal, all within bounds
C12_Witness ==
    /\ stat.op = "filtered_twice"
    /\ AllWithin(data)
    /\ Cardinality(DOMAIN data) = MaxKeys
    /\ \E i, j \in DOMAIN data : data[i] # data[j]

\* C13: cliffs_delta of a sample and itself is 0.
C13_DeltaOfIdenticalSamples ==
    (stat.op = "cliffs_delta" /\ samples.x = samples.y) => stat.val = [num |-> 0, den |-> 1]

\* C13, its case: the sample holds two different values
C13_Witness ==
    /\ stat.op = "cliffs_delta"
    /\ samples.x = samples.y
    /\ \E i, j \in DOMAIN samples.x : samples.x[i] < samples.x[j]

\* C14, as claimed: cliffs_delta of two samples of equal length, x[i] > y[i]
\* at every index i, is 1.
C14_DeltaOfElementwiseGreater ==
    ( /\ stat.op = "cliffs_delta"
      /\ Len(samples.x) = Len(samples.y)
      /\ \A i \in DOMAIN samples.x : samples.x[i] > samples.y[i] )
        => stat.val = [num |-> 1, den |-> 1]

\* C14, amended: cliffs_delta of two samples, every element of x greater
\* than every element of y, is 1.
C14_DeltaOfGreaterThanAll ==
    ( /\ stat.op = "cliffs_delta"
      /\ \A i \in DOMAIN samples.x : \A j \in DOMAIN samples.y :
            samples.x[i] > samples.y[j] )
        => stat.val = [num |-> 1, den |-> 1]

\* C14, its case: two samples of MaxSample elements, y's not all equal, every
\* element of x above every element of y
C14_Witness ==
    /\ stat.op = "cliffs_delta"
    /\ Len(samples.x) = MaxSample
    /\ Len(samples.y) = MaxSample
    /\ \E i, j \in DOMAIN samples.y : samples.y[i] # samples.y[j]
    /\ \A i \in DOMAIN samples.x : \A j \in DOMAIN samples.y :
          samples.x[i] > samples.y[j]


\* the sizes of a call's samples are too few for the test: a sample is empty,
\* or has fewer than 3 values for Shapiro-Wilk
TooFew(kind, sizes) ==
    IF kind = "shapiro" THEN \E i \in DOMAIN sizes : sizes[i] < 3
    ELSE \E i \in DOMAIN sizes : sizes[i] = 0

\* C27: every statistical test entry point, handed a group with too few
\* samples, skips the test and prints a notice; it does not raise
C27_TooFewSamplesGiveANotice ==
    stat.op \in {"run_test", "test_categories"}
        => /\ ~stat.raised
           /\ \A i \in DOMAIN stat.calls :
                 TooFew(stat.kind, stat.calls[i].sizes) => stat.calls[i].outcome = "notice"

\* the reviewers the metric function m knows in the category's repositories
NamesOf(flag, m) ==
    { k \in StudyReviewers :
         \E r \in DOMAIN study : is_industry_backed(r) = flag /\ k \in Keys(MetricOf(study[r], m)) }

\* whose value v is, and of which metric function
ReviewerOfValue(v) == v % 10
MetricOfValue(v) == v \div 100
RepoOfValue(v) == (v \div 10) % 10

\* the two lists are as long as there are common reviewers, hold their values
\* and only theirs, and pair the two values of one reviewer
AlignedOver(res, common) ==
    /\ res.computed
    /\ Len(res.values1) = Cardinality(common)
    /\ Len(res.values2) = Cardinality(common)
    /\ { ReviewerOfValue(res.values1[i]) : i \in DOMAIN res.values1 } = common
    /\ \A i \in DOMAIN res.values1 :
          /\ ReviewerOfValue(res.values1[i]) = ReviewerOfValue(res.values2[i])
          /\ MetricOfValue(res.values1[i]) = 1
          /\ MetricOfValue(res.values2[i]) = 2

SpearmanAsClaimed(res, flag) ==
    IF NamesOf(flag, 1) \cap NamesOf(flag, 2) = {}
    THEN ~res.computed /\ res.notice
    ELSE AlignedOver(res, NamesOf(flag, 1) \cap NamesOf(flag, 2))

\* C28: run_spearman_corr correlates, per category, two lists of equal length
\* over exactly the reviewers of both mappings, the i-th values of the two being
\* one reviewer's; with no common reviewer nothing is computed and a notice printed
C28_SpearmanOverCommonReviewers ==
    stat.op = "run_spearman_corr"
        => /\ SpearmanAsClaimed(stat.industry, TRUE)
           /\ SpearmanAsClaimed(stat.community, FALSE)

\* a category with a reviewer only the first metric knows, two common ones, and
\* the other category with none in common
C28_Witness ==
    /\ stat.op = "run_spearman_corr"
    /\ Len(stat.industry.values1) = 2
    /\ NamesOf(TRUE, 1) # NamesOf(TRUE, 2)
    /\ NamesOf(FALSE, 1) # {}
    /\ stat.community.notice

\* the last repository of the category, in registry order, that knows reviewer k
LastRepoWith(flag, k) ==
    CHOOSE r \in DOMAIN study :
        /\ is_industry_backed(r) = flag /\ k \in Keys(study[r].data1)
        /\ \A q \in DOMAIN study :
              is_industry_backed(q) = flag /\ k \in Keys(study[q].data1) => q <= r

\* the sample has one value per reviewer of the category: the last repository's
OneValuePerName(sample, flag) ==
    /\ Len(sample) = Cardinality(NamesOf(flag, 1))
    /\ \A k \in NamesOf(flag, 1) :
          \E i \in DOMAIN sample : sample[i] = ValueIn(1, LastRepoWith(flag, k), k)

\* C29: in the four tests between the groups a category's sample holds one value
\* per distinct reviewer name; of a name in several repositories of the category
\* only the value of the last one in registry order is kept
C29_OneValuePerReviewerName ==
    stat.op = "run_test"
        => /\ OneValuePerName(stat.industry_values, TRUE)
           /\ OneValuePerName(stat.community_values, FALSE)

\* the sizes of the mappings of the category's repositories, summed
RECURSIVE SumOfSizes(_, _)
SumOfSizes(flag, n) ==
    IF n = 0 THEN 0
    ELSE SumOfSizes(flag, n - 1)
           + (IF is_industry_backed(n) = flag THEN Len(study[n].data1) ELSE 0)

\* a reviewer of two industry repositories: the sample is smaller than the
\* mappings together, and holds the second repository's value
C29_Witness ==
    /\ stat.op = "run_test"
    /\ \E k \in Keys(study[1].data1) \cap Keys(study[2].data1) :
          \E i \in DOMAIN stat.industry_values :
              stat.industry_values[i] = ValueIn(1, 2, k)
    /\ Len(stat.industry_values) < SumOfSizes(TRUE, Len(study))

====
